---- MODULE Spec2Model ----
(***************************************************************************)
(* Windowed pagination of the /server search results (src/main.py):        *)
(* ServerInfoButtons holds page, start_index, servers and params;          *)
(* PageButton.callback moves the 5-item window and refetches the adjacent  *)
(* 20-item page with fetch_servers when the window leaves the page.        *)
(***************************************************************************)
EXTENDS Integers, Sequences, FiniteSets, TLC

\* ------------------------------------------------------------- constants
\* Items per remote page: the literal 20 of `start_index >= 20`.
PAGE_SIZE == 20
\* Items per window: the literal 5 of `direction * 5` and `end = start + 5`.
WINDOW == 5
\* start_index given to the last window of the previous page.
LAST_WINDOW == 15
\* ServerInfoButtons: super().__init__(timeout=120)
ViewTimeout == 120
\* The only status fetch_servers accepts.
HTTP_OK == 200

\* ---------------------------------------------------------------- bounds
\* Largest page number the model lets a session reach.
MaxPage == 3
\* How far below page 1 the model lets a session start or go.
MaxBelow == 1
\* Length of a representative short page.
ShortLen == 3
\* A short step of the clock between two interactions.
TickShort == 40
\* Clicks of one burst on one view.
NumTasks == 2
\* Fields of one server that are not valid at the same time.
MaxFaults == 1

Pages == (0 - MaxBelow) .. MaxPage
\* Lengths of the lists the remote answers with.
Lens == {0, ShortLen, LAST_WINDOW, LAST_WINDOW + 1, PAGE_SIZE}
\* The filter sets a user can start a search with (software=... or none).
ParamSets == {"none", "paper"}
Directions == {-1, 1}
TickSteps == {TickShort, ViewTimeout - 1}

VARIABLES
    page,         \* ServerInfoButtons.page
    start_index,  \* ServerInfoButtons.start_index
    servers,      \* ServerInfoButtons.servers
    params,       \* ServerInfoButtons.params
    buttons,      \* the servers of the ServerButtons the view holds
    elapsed,      \* time since the view last dispatched an interaction
    live,         \* the view has not timed out
    ev,           \* the last navigation click: what it saw and what it did
    ev2,          \* the navigation click before it
    task,         \* the callback task of each click of a burst
    cur,          \* the task the event loop is running, 0 when it runs none
    ready,        \* the tasks the event loop has yet to start, oldest first
    last_fetch,   \* the last call of fetch_servers for the view and its result
    detail        \* the step just taken, when it was a click on a ServerButton:
                  \* the fields of its server and what the callback made of them

vars == <<page, start_index, servers, params, buttons, elapsed, live, ev, ev2,
          task, cur, ready, last_fetch, detail>>
loop == <<task, cur, ready>>
clock == <<elapsed, live, ev, ev2, detail>>

Tasks == 1 .. NumTasks

Min(a, b) == IF a < b THEN a ELSE b

\* The i-th server of the list the remote holds for page q.
Item(q, i) == [pg |-> q, idx |-> i]

\* The n-item list the remote holds for page q.
ServerList(q, n) == [i \in 1 .. n |-> Item(q, i)]

\* Python's s[a:b] for 0 <= a <= b.
Slice(s, a, b) == SubSeq(s, a + 1, Min(b, Len(s)))

\* What requests.get can produce for one call.
Responses ==
    {[kind |-> "transport", status |-> 0, n |-> 0],
     [kind |-> "malformed", status |-> HTTP_OK, n |-> 0]}
    \cup {[kind |-> "status", status |-> c, n |-> 0] : c \in {404, 500}}
    \cup {[kind |-> "ok", status |-> HTTP_OK, n |-> n] : n \in Lens}

\* fetch_servers(page, **params) on a given answer of the remote: requests.get
\* raises on a transport error, a status other than 200 gives [], response.json()
\* raises on a malformed payload, and otherwise the "servers" list is returned.
fetch_servers(q, resp) ==
    IF resp.kind = "transport" THEN [raised |-> TRUE, servers |-> <<>>]
    ELSE IF resp.status # HTTP_OK THEN [raised |-> FALSE, servers |-> <<>>]
    ELSE IF resp.kind = "malformed" THEN [raised |-> TRUE, servers |-> <<>>]
    ELSE [raised |-> FALSE, servers |-> ServerList(q, resp.n)]

\* ServerInfoButtons.update_buttons: the servers given to the ServerButtons.
update_buttons(si, sv) == Slice(sv, si % PAGE_SIZE, (si % PAGE_SIZE) + WINDOW)

TimedOutLate(e) == e > ViewTimeout

\* ServerInfoButtons is a discord.ui.View made with timeout=120: the view stops
\* dispatching clicks once that long has passed since the last click it dispatched.
TimedOut(e) == e >= ViewTimeout

\* WindowView: servers[start_index : start_index + 5] of a session.
Window(si, sv) == Slice(sv, si, si + WINDOW)

\* No navigation click yet. kept: the click left servers as they were;
\* samewin: it left the window as it was.
NoEvent ==
    [kind |-> "none", dir |-> 0, page0 |-> 0, start0 |-> 0, kept |-> TRUE,
     samewin |-> TRUE, at |-> 0, after |-> 0, fetched |-> <<>>, resp |-> "nofetch", n |-> 0,
     raised |-> FALSE]

\* The click made no fetch, or its fetch gave a full page.
FullPage(e) ==
    e.kind = "nav" /\ ~e.raised
    /\ (e.fetched = <<>> \/ (e.resp = "ok" /\ e.n = PAGE_SIZE))

\* What is kept of the click before the last one.
Summary(e) ==
    [kind |-> e.kind, dir |-> e.dir, page0 |-> e.page0, start0 |-> e.start0,
     full |-> FullPage(e)]

\* self.view_ref.start_index += self.direction * 5
Shift(si, d) == si + d * WINDOW

PastEndStrict(s1) == s1 > PAGE_SIZE

\* if self.view_ref.start_index >= 20
PastEnd(s1) == s1 >= PAGE_SIZE

\* elif self.view_ref.start_index < 0
BeforeStart(s1) == s1 < 0

AtFirstPageZeroBased(p) == p = 0

\* if self.view_ref.page == 1
AtFirstPage(p) == p = 1

PrevPageStartPageSize == PAGE_SIZE

\* self.view_ref.start_index = 15
PrevPageStart == LAST_WINDOW

\* PageButton.callback up to update_buttons, as a function of the session it
\* finds, the direction of the button and the answer of the remote (read only
\* when a fetch is made). fetched: the pages asked for. raised: fetch_servers
\* raised, so the assignment of servers and all that follows did not run.
callback(st, d, resp) ==
    LET s1 == Shift(st.start_index, d) IN
    IF PastEnd(s1) THEN
        LET r == fetch_servers(st.page + 1, resp) IN
        [page |-> st.page + 1, start_index |-> 0,
         servers |-> IF r.raised THEN st.servers ELSE r.servers,
         fetched |-> <<st.page + 1>>, raised |-> r.raised]
    ELSE IF BeforeStart(s1) THEN
        IF AtFirstPage(st.page) THEN
            [page |-> st.page, start_index |-> 0, servers |-> st.servers,
             fetched |-> <<>>, raised |-> FALSE]
        ELSE
            LET r == fetch_servers(st.page - 1, resp) IN
            [page |-> st.page - 1, start_index |-> PrevPageStart,
             servers |-> IF r.raised THEN st.servers ELSE r.servers,
             fetched |-> <<st.page - 1>>, raised |-> r.raised]
    ELSE
        [page |-> st.page, start_index |-> s1, servers |-> st.servers,
         fetched |-> <<>>, raised |-> FALSE]

\* A call fetch_servers(page=q, **ps) and what it gave: q and ps as sent, the
\* list it returned (none when it raised), and filter0, the params the view
\* was made with.
FetchRecord(q, ps, r, f0) ==
    [page |-> q, params |-> ps, raised |-> r.raised,
     servers |-> IF r.raised THEN <<>> ELSE r.servers, filter0 |-> f0]

\* ------------------------------------------------ the details of a server
\* The display fields ServerButton.callback reads from a server.
Fields == {"lastSeen", "geolocation", "country", "city", "version", "authmode", "players"}

\* What the remote can have put in a field: a valid value, no key at all, null,
\* or a value that cannot be used (lastSeen: a string that is no ISO date;
\* geolocation: not an object; country: not a string; authmode: a string that
\* is none of online / offline / whitelist; city, version, players: a value of
\* another type).
Shapes == {"valid", "absent", "null", "bad"}

\* A server with every field valid.
AllValid == [k \in Fields |-> "valid"]

\* The servers the remote can give, with at most MaxFaults fields not valid.
ServerShapes ==
    {f \in [Fields -> Shapes] :
        Cardinality({k \in Fields : f[k] # "valid"}) <= MaxFaults}

\* No embed: ServerButton.callback raised before send_message.
Raised == [raised |-> TRUE, last_seen |-> "-", country |-> "-", city |-> "-",
           version |-> "-", auth |-> "-", players |-> "-"]

\* last_seen_raw = self.server.get("lastSeen"); if last_seen_raw:
\* datetime.fromisoformat(...) else "Unknown". "raise": fromisoformat raised.
last_seen_display(x) ==
    IF x \in {"absent", "null"} THEN "Unknown"
    ELSE IF x = "bad" THEN "raise"
    ELSE "shown"

\* geo = self.server.get("geolocation", {}); geo.get(key, "Unknown"): the shape
\* of geo[key] as the callback sees it; "raise": geo has no get.
geo_get(g, x) ==
    IF g \in {"null", "bad"} THEN "raise"
    ELSE IF g = "absent" THEN "absent"
    ELSE x

\* f":flag_{geo.get('country', 'Unknown').lower()}: ...": lower() of None or of
\* a value that is no string raises.
country_display(g, x) ==
    LET c == geo_get(g, x) IN
    IF c \in {"raise", "null", "bad"} THEN "raise"
    ELSE IF c = "absent" THEN "Unknown"
    ELSE "shown"

\* str(d.get(key, default)): the default shows for a missing key only; null
\* shows as "None" and any other value as it is.
str_get(x, default) ==
    IF x = "absent" THEN default
    ELSE IF x = "null" THEN "None"
    ELSE IF x = "bad" THEN "raw"
    ELSE "shown"

\* value=geo.get("city", "Unknown"), which add_field shows as str(value).
city_display(g, x) ==
    LET c == geo_get(g, x) IN
    IF c = "raise" THEN "raise" ELSE str_get(c, "Unknown")

\* map_authmode: auth_map.get((authmode_str or "").lower(), default).
map_authmode(x) == IF x = "valid" THEN "shown" ELSE "Unknown"

\* ServerButton.callback: the embed it sends for a server with fields f.
ServerButton_callback(f) ==
    LET ls == last_seen_display(f["lastSeen"])
        co == country_display(f["geolocation"], f["country"])
        ci == city_display(f["geolocation"], f["city"])
    IN  IF "raise" \in {ls, co, ci} THEN Raised
        ELSE [raised |-> FALSE, last_seen |-> ls, country |-> co, city |-> ci,
              version |-> str_get(f["version"], "Unknown"),
              auth |-> map_authmode(f["authmode"]),
              players |-> str_get(f["players"], "0")]

\* The step just taken was no click on a ServerButton.
NoDetail == [kind |-> "none", fields |-> AllValid, out |-> Raised, kept |-> TRUE]

Session == [page |-> page, start_index |-> start_index, servers |-> servers]

\* A click that has not been made.
NoTask ==
    [pc |-> "new", dir |-> 0, snap |-> [page |-> 0, start_index |-> 0, servers |-> <<>>],
     resp |-> "nofetch", n |-> 0, seq |-> TRUE]

\* server_cmd: a view is made only when the first fetch gave servers.
Init ==
    /\ page \in Pages
    /\ start_index = 0
    /\ \E n \in Lens \ {0} : servers = ServerList(page, n)
    /\ params \in ParamSets
    /\ buttons = update_buttons(0, servers)
    /\ elapsed = 0
    /\ live = TRUE
    /\ ev = NoEvent
    /\ ev2 = Summary(NoEvent)
    /\ task = [t \in Tasks |-> NoTask]
    /\ cur = 0
    /\ ready = <<>>
    /\ last_fetch = FetchRecord(page, params, [raised |-> FALSE, servers |-> servers], params)
    /\ detail = NoDetail

\* A click on Previous (d = -1) or Next (d = 1) the view dispatches.
Navigate(d, resp) ==
    LET out == callback(Session, d, resp) IN
    /\ live
    /\ out.page \in Pages
    /\ page' = out.page
    /\ start_index' = out.start_index
    /\ servers' = out.servers
    /\ buttons' = IF out.raised THEN buttons
                  ELSE update_buttons(out.start_index, out.servers)
    /\ elapsed' = 0
    /\ ev' = [kind |-> "nav", dir |-> d, page0 |-> page, start0 |-> start_index,
              kept |-> (servers' = servers),
              samewin |-> (Window(start_index', servers') = Window(start_index, servers)),
              at |-> elapsed, after |-> elapsed',
              fetched |-> [i \in 1 .. Len(out.fetched) |-> <<out.fetched[i], params>>],
              resp |-> IF out.fetched = <<>> THEN "nofetch" ELSE resp.kind,
              n |-> IF out.fetched = <<>> THEN 0 ELSE resp.n,
              raised |-> out.raised]
    /\ ev2' = Summary(ev)
    /\ last_fetch' = IF out.fetched = <<>> THEN last_fetch
                     ELSE FetchRecord(out.fetched[1], params,
                                      fetch_servers(out.fetched[1], resp),
                                      last_fetch.filter0)
    /\ detail' = NoDetail
    /\ UNCHANGED <<params, live, loop>>

\* A click on Previous or Next after the view timed out: nothing runs.
NavigateExpired(d) ==
    /\ ~live
    /\ UNCHANGED <<page, start_index, servers, params, buttons, elapsed, live, loop, last_fetch>>
    /\ detail' = NoDetail
    /\ ev' = [NoEvent EXCEPT !.kind = "expired", !.dir = d, !.page0 = page,
              !.start0 = start_index, !.kept = (servers' = servers),
              !.samewin = (Window(start_index', servers') = Window(start_index, servers)),
              !.at = elapsed, !.after = elapsed']
    /\ ev2' = Summary(ev)

\* A click on the i-th ServerButton, f being the fields of its server as the
\* remote gave them: ServerButton.callback builds the embed (or raises); the
\* session is not written.
Select(i, f) ==
    /\ live
    /\ i \in 1 .. Len(buttons)
    /\ elapsed' = 0
    /\ UNCHANGED <<page, start_index, servers, params, buttons, live, ev, ev2, loop, last_fetch>>
    /\ detail' = [kind |-> "select", fields |-> f, out |-> ServerButton_callback(f),
                  kept |-> (page' = page /\ start_index' = start_index
                            /\ servers' = servers)]

\* Time passes with no interaction.
Tick(dt) ==
    /\ live
    /\ elapsed' = Min(elapsed + dt, ViewTimeout)
    /\ live' = ~TimedOut(elapsed')
    /\ UNCHANGED <<page, start_index, servers, params, buttons, ev, ev2, loop, last_fetch>>
    /\ detail' = NoDetail

Next ==
    \/ \E d \in Directions, resp \in Responses : Navigate(d, resp)
    \/ \E d \in Directions : NavigateExpired(d)
    \/ \E i \in 1 .. WINDOW : Select(i, AllValid)
    \/ \E dt \in TickSteps : Tick(dt)

Spec == Init /\ [][Next]_vars

\* ------------------------------------------------------------- the claims
Max(a, b) == IF a > b THEN a ELSE b

\* The last click ran PageButton.callback.
Nav == ev.kind = "nav"
Forward == Nav /\ ev.dir = 1
Backward == Nav /\ ev.dir = -1
\* The last click made a fetch, and the fetch gave the caller an empty list.
EmptyFetch ==
    /\ Nav /\ ev.fetched # <<>> /\ ~ev.raised
    /\ (ev.resp = "status" \/ (ev.resp = "ok" /\ ev.n = 0))
\* The remote call of the last click failed.
FailedFetch == Nav /\ ev.resp \in {"transport", "status", "malformed"}

\* C1: after any sequence of Forward and Backward clicks, with full, short and
\* empty fetch results, start_index is one of 0, 5, 10, 15.
C1_StartIndexInRange ==
    /\ start_index \in {0, 5, 10, 15}
    /\ start_index % WINDOW = 0 /\ 0 <= start_index /\ start_index < PAGE_SIZE

\* A Backward click that refetched a short page after a Forward click.
C1_Witness ==
    /\ Backward /\ ev.resp = "ok" /\ ev.n = ShortLen /\ ev2.dir = 1
    /\ start_index = LAST_WINDOW

\* C2: a Forward click from offset 15 on page p whose refetch of page p+1 gives
\* an empty page leaves the session at page p, offset 15, with the items of
\* page p.
C2_EmptyForwardRejected ==
    (Forward /\ ev.page0 >= 1 /\ ev.start0 = LAST_WINDOW /\ EmptyFetch)
        => (page = ev.page0 /\ start_index = LAST_WINDOW /\ ev.kept)

\* C3: a Backward click from (p, 0), p > 1, refetches page p-1 and ends on page
\* p-1 at offset 15 when the page has at least 16 items, and at
\* max(0, floor((n-1)/5)*5) when it has 1 <= n < 16 items, so that the offset is
\* smaller than the number of items.
C3_BackwardClamped ==
    (Backward /\ ev.start0 = 0 /\ ev.page0 > 1 /\ ev.resp = "ok" /\ ev.n >= 1)
        => /\ ev.fetched = <<<<ev.page0 - 1, params>>>>
           /\ page = ev.page0 - 1
           /\ start_index = IF ev.n >= LAST_WINDOW + 1 THEN LAST_WINDOW
                            ELSE Max(0, ((ev.n - 1) \div WINDOW) * WINDOW)
           /\ start_index < Len(servers)

\* C4: in every state of a session (on a page from 1 up) the offset indexes an item of the loaded
\* page, so the window holds at least one item and only items of that page.
C4_OffsetIndexesItem ==
    page >= 1 =>
    /\ start_index < Len(servers)
    /\ Window(start_index, servers) # <<>>
    /\ \A i \in 1 .. Len(Window(start_index, servers)) :
           \E j \in 1 .. Len(servers) : Window(start_index, servers)[i] = servers[j]

\* C5: fetch_servers never raises: in each failure outcome of the remote call it
\* gives the empty page; so a click whose refetch failed never leaves the page
\* number or offset changed with the items of the previous page still loaded.
C5_FetchNeverRaises ==
    (Nav /\ ev.page0 >= 1) =>
    /\ ~ev.raised
    /\ FailedFetch => servers = <<>>
    /\ FailedFetch => ~((page # ev.page0 \/ start_index # ev.start0) /\ ev.kept)

C6_WitnessAccepted ==
    Nav /\ ev.at = ViewTimeout - 1 /\ ev.fetched = <<>> /\ elapsed = 0

\* The click crossed a page boundary as C8 words it.
Crossed(e) ==
    \/ e.dir = 1 /\ e.start0 = LAST_WINDOW
    \/ e.dir = -1 /\ e.start0 = 0 /\ e.page0 > 1

\* C8: a click issues a fetch exactly when it crosses a page boundary (Forward
\* from offset 15, Backward from offset 0 on a page above 1), and then exactly
\* one, for the adjacent page; the fourth Forward of a fresh session on a full
\* page 1 fetches page 2 once and ends at (2, 0).
C8_FetchIffCrossing ==
    Nav => /\ (ev.fetched # <<>>) <=> Crossed(ev)
           /\ Crossed(ev) => ev.fetched = <<<<ev.page0 + ev.dir, params>>>>
           /\ (ev.dir = 1 /\ ev.start0 < LAST_WINDOW)
                  => (page = ev.page0 /\ start_index = ev.start0 + WINDOW)
           /\ (ev.dir = 1 /\ ev.start0 = LAST_WINDOW)
                  => (page = ev.page0 + 1 /\ start_index = 0)

\* C9: for p >= 1 and o in {0, 5, 10, 15}, a Forward click then a Backward
\* click, every refetch giving a full page, ends at page p and offset o.
C9_RoundTrip ==
    (Backward /\ FullPage(ev) /\ ev2.kind = "nav" /\ ev2.dir = 1 /\ ev2.full
        /\ ev2.page0 >= 1)
        => (page = ev2.page0 /\ start_index = ev2.start0)

\* Forward from (p, 15) and back: both clicks refetched a full page.
C9_Witness ==
    /\ Backward /\ FullPage(ev) /\ ev.fetched # <<>>
    /\ ev2.kind = "nav" /\ ev2.dir = 1 /\ ev2.full /\ ev2.page0 >= 1
    /\ ev2.start0 = LAST_WINDOW /\ page = ev2.page0 /\ start_index = LAST_WINDOW

\* C10: a Backward click at page 1, offset 0 changes nothing: page number,
\* offset, items and so the window stay, and no fetch is issued.
C10_BackwardAtStart ==
    (Backward /\ ev.page0 = 1 /\ ev.start0 = 0)
        => /\ page = 1 /\ start_index = 0 /\ ev.kept
           /\ ev.samewin
           /\ ev.fetched = <<>> /\ ev.resp = "nofetch"

\* A Backward click at (1, 0) on a session that had moved away and come back.
C10_Witness ==
    /\ Backward /\ ev.page0 = 1 /\ ev.start0 = 0 /\ page = 1
    /\ ev2.kind = "nav" /\ ev2.dir = -1 /\ ev2.start0 = WINDOW

\* ------------------------------------------- the callback on the event loop
\* PageButton.callback is a coroutine: discord.py starts one task per click, the
\* tasks run on one event loop, and a task gives the loop up only at an await.
\* The steps below are the statements of the callback.

YieldsAtFetch(t) == 0

\* fetch_servers calls requests.get, which blocks: the task that calls it keeps
\* the event loop until the answer is there.
AfterFetchCall(t) == t

\* A click on Previous or Next arrives: its task is queued behind the others.
Arrive(d) ==
    /\ cur = 0
    /\ \E t \in Tasks :
        /\ task[t].pc = "new"
        /\ \A u \in Tasks : u < t => task[u].pc # "new"
        /\ task' = [task EXCEPT ![t].pc = "ready", ![t].dir = d]
        /\ ready' = Append(ready, t)
    /\ UNCHANGED <<page, start_index, servers, params, buttons, clock, last_fetch, cur>>

\* The event loop starts the oldest queued task.
Start ==
    /\ cur = 0 /\ ready # <<>>
    /\ cur' = Head(ready)
    /\ ready' = Tail(ready)
    /\ task' = [task EXCEPT ![Head(ready)].pc = "l213"]
    /\ UNCHANGED <<page, start_index, servers, params, buttons, clock, last_fetch>>

\* self.view_ref.start_index += self.direction * 5
L213(t) ==
    /\ cur = t /\ task[t].pc = "l213"
    /\ start_index' = Shift(start_index, task[t].dir)
    /\ task' = [task EXCEPT ![t].pc = "l216", ![t].snap = Session]
    /\ UNCHANGED <<page, servers, params, buttons, clock, last_fetch, cur, ready>>

\* The if / elif of the callback, up to the call of fetch_servers.
L216(t) ==
    /\ cur = t /\ task[t].pc = "l216"
    /\ IF PastEnd(start_index) THEN
           /\ page' = page + 1
           /\ start_index' = 0
           /\ task' = [task EXCEPT ![t].pc = "fetch"]
       ELSE IF BeforeStart(start_index) THEN
           IF AtFirstPage(page) THEN
               /\ start_index' = 0
               /\ task' = [task EXCEPT ![t].pc = "l233"]
               /\ UNCHANGED page
           ELSE
               /\ page' = page - 1
               /\ start_index' = PrevPageStart
               /\ task' = [task EXCEPT ![t].pc = "fetch"]
       ELSE
           /\ task' = [task EXCEPT ![t].pc = "l233"]
           /\ UNCHANGED <<page, start_index>>
    /\ page' \in Pages
    /\ UNCHANGED <<servers, params, buttons, clock, last_fetch, cur, ready>>

\* fetch_servers(page=self.view_ref.page, ...): the request leaves.
FetchCall(t) ==
    /\ cur = t /\ task[t].pc = "fetch"
    /\ task' = [task EXCEPT ![t].pc = "infetch"]
    /\ cur' = AfterFetchCall(t)
    /\ UNCHANGED <<page, start_index, servers, params, buttons, clock, last_fetch, ready>>

\* The task is at the end of the statements that write the session: what it
\* leaves is what callback gives for the session the task found.
AsAlone(t, resp) ==
    LET out == callback(task[t].snap, task[t].dir, resp) IN
    /\ page' = out.page
    /\ start_index' = out.start_index
    /\ servers' = out.servers

\* The answer is there: self.view_ref.servers = fetch_servers(...), or the
\* exception of fetch_servers ends the task.
FetchReturn(t, resp) ==
    LET r == fetch_servers(page, resp) IN
    /\ cur \in {0, t} /\ task[t].pc = "infetch"
    /\ servers' = IF r.raised THEN servers ELSE r.servers
    /\ UNCHANGED <<page, start_index>>
    /\ task' = [task EXCEPT ![t].pc = IF r.raised THEN "failed" ELSE "l233",
                            ![t].resp = resp.kind, ![t].n = resp.n,
                            ![t].seq = r.raised => AsAlone(t, resp)]
    /\ cur' = IF r.raised THEN 0 ELSE t
    /\ last_fetch' = FetchRecord(page, params, r, last_fetch.filter0)
    /\ UNCHANGED <<params, buttons, clock, ready>>

\* self.view_ref.update_buttons(), the embed of the window, and
\* await interaction.response.edit_message(...): the task gives the loop up.
L233(t) ==
    /\ cur = t /\ task[t].pc = "l233"
    /\ buttons' = update_buttons(start_index, servers)
    /\ UNCHANGED <<page, start_index, servers>>
    /\ task' = [task EXCEPT ![t].pc = "await",
                            ![t].seq = \E resp \in Responses :
                                /\ task[t].resp \in {"nofetch", resp.kind}
                                /\ task[t].resp = "nofetch" \/ task[t].n = resp.n
                                /\ AsAlone(t, resp)]
    /\ cur' = 0
    /\ UNCHANGED <<params, clock, last_fetch, ready>>

\* The message was edited: the task ends.
Resume(t) ==
    /\ cur = 0 /\ task[t].pc = "await"
    /\ task' = [task EXCEPT ![t].pc = "done"]
    /\ UNCHANGED <<page, start_index, servers, params, buttons, clock, last_fetch, cur, ready>>

NextLoop ==
    \/ \E d \in Directions : Arrive(d)
    \/ Start
    \/ \E t \in Tasks : L213(t)
    \/ \E t \in Tasks : L216(t)
    \/ \E t \in Tasks : FetchCall(t)
    \/ \E t \in Tasks, resp \in Responses : FetchReturn(t, resp)
    \/ \E t \in Tasks : L233(t)
    \/ \E t \in Tasks : Resume(t)

SpecLoop == Init /\ [][NextLoop]_vars

\* The task has written the session and has not finished its writes.
Writing(t) == task[t].pc \in {"l216", "fetch", "infetch", "l233"}

\* C7: navigation clicks on one view are not interleaved: while a click is
\* between its first write and the end of its refetch no other click reads or
\* writes page, start_index or servers; at most one refetch is in flight; and
\* the clicks of a burst leave what they leave when run one at a time in the
\* order they arrived.
C7_NoInterleaving ==
    /\ \A t, u \in Tasks : (Writing(t) /\ Writing(u)) => t = u
    /\ \A t, u \in Tasks : (Writing(t) /\ u # t) => task[u].pc # "l213" /\ cur # u
    /\ Cardinality({t \in Tasks : task[t].pc = "infetch"}) <= 1
    /\ \A t \in Tasks : task[t].seq
    /\ \A t, u \in Tasks :
           (u < t /\ task[t].pc \notin {"new", "ready"})
               => task[u].pc \notin {"new", "ready", "l213"} /\ ~Writing(u)

\* A burst: the refetch of one click is in flight while the next click is
\* queued behind it.
C7_Witness ==
    \E t, u \in Tasks :
        /\ task[t].pc = "infetch" /\ cur = t
        /\ task[u].pc = "ready" /\ ready = <<u>>

\* C11: for every view /server makes, whatever starting page the user gives,
\* and after any clicks, the page number is at least 1 and every call of
\* fetch_servers for the view carries a page number of at least 1.
C11_PageAtLeastOne ==
    /\ page >= 1
    /\ last_fetch.page >= 1
    /\ \A i \in 1 .. Len(ev.fetched) : ev.fetched[i][1] >= 1

\* C13: (on pages from 1 up) the loaded items are the result of the last fetch
\* the view issued, made for the current page number with the params the view
\* was made with: params never change, and the page number never changes
\* without servers being replaced by the fetch result for the new page number.
C13_ItemsOfCurrentPage ==
    (page >= 1 /\ (Nav => ev.page0 >= 1)) =>
    /\ ~last_fetch.raised
    /\ servers = last_fetch.servers
    /\ last_fetch.page = page
    /\ last_fetch.params = last_fetch.filter0
    /\ params = last_fetch.filter0
    /\ (Nav /\ page # ev.page0)
           => (ev.fetched = <<<<page, params>>>> /\ ~ev.raised)

\* The sessions a view can be in when a ServerButton is clicked, each with a
\* click that has yet to come.
InitDetail ==
    /\ page \in 1 .. MaxPage
    /\ start_index \in {0, WINDOW, 2 * WINDOW, LAST_WINDOW}
    /\ \E n \in Lens : servers = ServerList(page, n)
    /\ params \in ParamSets
    /\ buttons = update_buttons(start_index, servers)
    /\ elapsed = 0
    /\ live = TRUE
    /\ ev = NoEvent
    /\ ev2 = Summary(NoEvent)
    /\ task = [t \in Tasks |-> NoTask]
    /\ cur = 0
    /\ ready = <<>>
    /\ last_fetch = FetchRecord(page, params, [raised |-> FALSE, servers |-> servers], params)
    /\ detail = NoDetail

NextDetail == \E i \in 1 .. WINDOW, f \in ServerShapes : Select(i, f)

SpecDetail == InitDetail /\ [][NextDetail]_vars

\* What the embed shows for field k.
Shown(k) ==
    CASE k = "lastSeen" -> detail.out.last_seen
      [] k = "geolocation" -> detail.out.country
      [] k = "country" -> detail.out.country
      [] k = "city" -> detail.out.city
      [] k = "version" -> detail.out.version
      [] k = "authmode" -> detail.out.auth
      [] k = "players" -> detail.out.players

\* C12: a click on a ServerButton always gives a detail record and never an
\* error: whether a field is valid, absent, null or unparseable, the callback
\* completes and shows "Unknown" for each field that is not valid; and the click
\* leaves page, start_index and servers as they were.
C12_DetailNeverFails ==
    detail.kind = "select" =>
        /\ ~detail.out.raised
        /\ \A k \in Fields : detail.fields[k] # "valid" => Shown(k) = "Unknown"
        /\ detail.kept

TypeOK ==
    /\ page \in Pages
    /\ start_index \in Int
    /\ live \in BOOLEAN
    /\ elapsed \in 0 .. ViewTimeout
====
